---- MODULE Spec2Model ----
(***************************************************************************)
(* A model of the two leaf components of the repository:                   *)
(*   src/duration.py   class Duration  (duration-string parser and views)  *)
(*   src/log_level.py  class LogLevel  (severity enum, clamp, logger)      *)
(*                                                                         *)
(* Strings are sequences of one-character strings.  Python floats are      *)
(* IEEE-754 binary64 values, modelled exactly for the non-negative finite  *)
(* normal range: a float is a record [m, e] standing for m * 2^e, where m  *)
(* is an odd integer of at most MantBits bits written as a sequence of     *)
(* bits, most significant first (zero is [m |-> <<>>, e |-> 0]).  Every    *)
(* arithmetic result is rounded to nearest, ties to even, as the hardware  *)
(* does.                                                                   *)
(***************************************************************************)
EXTENDS Integers, Sequences, FiniteSets

----------------------------------------------------------------------------
(* Characters and strings *)

Digits == <<"0", "1", "2", "3", "4", "5", "6", "7", "8", "9">>

Letters ==
  { "a", "b", "c", "d", "e", "f", "g", "h", "i", "j", "k", "l", "m",
    "n", "o", "p", "q", "r", "s", "t", "u", "v", "w", "x", "y", "z",
    "D", "S" }

\* \d of the regular expression
IsDigit(c) == \E i \in 1..Len(Digits) : Digits[i] = c

\* \s of the regular expression, and what str.strip() removes
IsSpace(c) == c \in {" ", "\t", "\n"}

\* a changed IsWord: \S in place of \w
IsWordNonBlank(c) == ~IsSpace(c)

\* \w of the regular expression: letters, digits and the underscore
IsWord(c) == c \in Letters \/ IsDigit(c) \/ c = "_"

DigitVal(c) == (CHOOSE i \in 1..Len(Digits) : Digits[i] = c) - 1

----------------------------------------------------------------------------
(* binary64 arithmetic *)

MantBits == 53

Zero == [m |-> <<>>, e |-> 0]

\* the bits of a natural number, most significant first (<<>> for 0)
RECURSIVE NatBits(_)
NatBits(n) == IF n = 0 THEN <<>> ELSE Append(NatBits(n \div 2), n % 2)

\* the natural number a (short) sequence of bits stands for
RECURSIVE BitsNat(_)
BitsNat(b) ==
  IF b = <<>> THEN 0 ELSE 2 * BitsNat(SubSeq(b, 1, Len(b) - 1)) + b[Len(b)]

\* b * c + carry for the bits b and naturals c, carry, as the low Len(b)
\* bits of the result and what is carried out of them; the two halves of b
\* are multiplied in turn, the low half first (the carry is looked at on
\* entry, so the low half is complete before the high half starts)
RECURSIVE MulAddRaw(_, _, _)
MulAddRaw(b, c, carry) ==
  IF carry = 0 /\ b = <<>> THEN [bits |-> <<>>, carry |-> 0]
  ELSE IF b = <<>> THEN [bits |-> <<>>, carry |-> carry]
  ELSE IF Len(b) = 1
    THEN LET t == b[1] * c + carry
         IN  [bits |-> <<t % 2>>, carry |-> t \div 2]
  ELSE LET h  == Len(b) \div 2
           lo == MulAddRaw(SubSeq(b, h + 1, Len(b)), c, carry)
           hi == MulAddRaw(SubSeq(b, 1, h), c, lo.carry)
       IN  [bits |-> hi.bits \o lo.bits, carry |-> hi.carry]

\* b * c + carry as a bit sequence
MulAdd(b, c, carry) ==
  LET raw == MulAddRaw(b, c, carry) IN NatBits(raw.carry) \o raw.bits

\* long division of (r * 2^Len(b) + b) by the natural d, r < d: the Len(b)
\* quotient bits and the remainder; the high half of b is divided first
RECURSIVE DivRaw(_, _, _)
DivRaw(b, d, r) ==
  IF b = <<>> THEN [q |-> <<>>, r |-> r]
  ELSE IF Len(b) = 1
    THEN LET cur == 2 * r + b[1]
         IN  [q |-> <<cur \div d>>, r |-> cur % d]
  ELSE LET h  == Len(b) \div 2
           hi == DivRaw(SubSeq(b, 1, h), d, r)
           lo == DivRaw(SubSeq(b, h + 1, Len(b)), d, hi.r)
       IN  [q |-> hi.q \o lo.q, r |-> lo.r]

\* the positions of the one bits
Ones(b) == {i \in 1..Len(b) : b[i] = 1}

\* b without its leading zero bits
StripLeading(b) ==
  IF Ones(b) = {} THEN <<>>
  ELSE SubSeq(b, CHOOSE i \in Ones(b) : \A j \in Ones(b) : i <= j, Len(b))

\* m * 2^e in canonical form: trailing zero bits dropped, the exponent raised
Norm(m, e) ==
  IF Ones(m) = {} THEN Zero
  ELSE LET last == CHOOSE i \in Ones(m) : \A j \in Ones(m) : i >= j
       IN  [m |-> SubSeq(m, 1, last), e |-> e + Len(m) - last]

\* the float nearest to (n + f) * 2^e, where n is a bit sequence and
\* 0 <= f < 1 with f > 0 iff sticky; ties go to the even significand
Round(n, sticky, e) ==
  IF Len(n) <= MantBits THEN Norm(n, e)
  ELSE LET keep  == SubSeq(n, 1, MantBits)
           guard == n[MantBits + 1]
           rest  == sticky \/ \E i \in (MantBits + 2)..Len(n) : n[i] = 1
           up    == guard = 1 /\ (rest \/ keep[MantBits] = 1)
       IN  Norm(IF up THEN MulAdd(keep, 1, 1) ELSE keep, e + Len(n) - MantBits)

\* the float nearest to (n / d) * 2^e; n is padded so that the quotient has
\* more than MantBits + 1 bits before it is rounded
RoundDiv(n, d, e) ==
  IF n = <<>> THEN Zero
  ELSE IF d = 1 THEN Round(n, FALSE, e)
  ELSE LET need == MantBits + 2 + Len(NatBits(d))
           pad  == IF Len(n) >= need THEN 0 ELSE need - Len(n)
           qr  == DivRaw(n \o [i \in 1..pad |-> 0], d, 0)
       IN  Round(StripLeading(qr.q), qr.r # 0, e - pad)

\* the float of an int literal
IntFloat(k) == Round(NatBits(k), FALSE, 0)

\* a * b on floats; one operand's significand must be short enough to be a
\* machine integer (every multiplication of the program has such an operand)
FMul(a, b) ==
  IF a = Zero \/ b = Zero THEN Zero
  ELSE LET long  == IF Len(a.m) >= Len(b.m) THEN a ELSE b
           short == IF Len(a.m) >= Len(b.m) THEN b ELSE a
       IN  Round(MulAdd(long.m, BitsNat(short.m), 0), FALSE, a.e + b.e)

\* a / b on floats, b # 0 with a short significand (the program divides by
\* 60, 24 and 365.25 only)
FDiv(a, b) ==
  IF a = Zero THEN Zero ELSE RoundDiv(a.m, BitsNat(b.m), a.e - b.e)

RECURSIVE Pow10(_)
Pow10(k) == IF k = 0 THEN 1 ELSE 10 * Pow10(k - 1)

\* the digits of s as an integer, in bits
RECURSIVE DecBits(_)
DecBits(s) ==
  IF s = <<>> THEN <<>>
  ELSE MulAdd(DecBits(SubSeq(s, 1, Len(s) - 1)), 10, DigitVal(s[Len(s)]))

\* a raised exception, by the name of its Python type
Raise(kind) == [err |-> kind]

IsErr(x) == DOMAIN x = {"err"}

\* the correctly rounded value of a string of the shape \d*\.?\d* that
\* holds a digit: its digits as an integer, over ten to the number of
\* digits after the point
FloatOfDecimal(s) ==
  LET dots   == {i \in 1..Len(s) : s[i] = "."}
      dot    == IF dots = {} THEN Len(s) + 1 ELSE CHOOSE i \in dots : TRUE
      digits == SubSeq(s, 1, dot - 1) \o SubSeq(s, dot + 1, Len(s))
      places == IF dots = {} THEN 0 ELSE Len(s) - dot
  IN  RoundDiv(DecBits(digits), Pow10(places), 0)

\* a changed ParseFloat: a string without digits reads as 0.0
ParseFloatLenient(s) ==
  IF \E i \in 1..Len(s) : IsDigit(s[i]) THEN FloatOfDecimal(s) ELSE Zero

\* float(s) for a string s of the shape \d*\.?\d* : its value, or
\* ValueError when s holds no digit ('' and '.')
ParseFloat(s) ==
  IF \E i \in 1..Len(s) : IsDigit(s[i])
    THEN FloatOfDecimal(s)
    ELSE Raise("ValueError")

----------------------------------------------------------------------------
(* src/duration.py *)

\* str.strip(): s without its leading and trailing whitespace
strip(s) ==
  LET keep == {i \in 1..Len(s) : ~IsSpace(s[i])}
  IN  IF keep = {} THEN <<>>
      ELSE SubSeq(s, CHOOSE i \in keep : \A j \in keep : i <= j,
                     CHOOSE i \in keep : \A j \in keep : i >= j)

\* the length of the longest run of positions of the set pos that starts at i
RunFrom(pos, i, n) ==
  CHOOSE k \in 0..(n + 1 - i) :
    /\ \A j \in i..(i + k - 1) : j \in pos
    /\ (i + k > n \/ (i + k) \notin pos)

NoMatch == [matched |-> FALSE]

\* re.match(r'(\d*\.?\d*)\s*(\w+)', t): every way <<a, b, c, w>> of matching
\* a digits, b dots, c digits and w blanks before at least one word
\* character is a candidate; the backtracking matcher returns the first in
\* its greedy order, which is the lexicographically greatest.  The word
\* group, the last item of the pattern, takes the whole run.
re_match(t) ==
  LET n      == Len(t)
      digits == {i \in 1..n : IsDigit(t[i])}
      blanks == {i \in 1..n : IsSpace(t[i])}
      words  == {i \in 1..n : IsWord(t[i])}
      cands  ==
        UNION { UNION { UNION { {<<a, b, c, w>> :
                    w \in {x \in 0..RunFrom(blanks, a + b + c + 1, n) :
                             a + b + c + x + 1 \in words}} :
                  c \in 0..RunFrom(digits, a + b + 1, n)} :
                b \in {x \in {0, 1} : x = 1 => (a + 1 <= n /\ t[a + 1] = ".")}} :
              a \in 0..RunFrom(digits, 1, n)}
      Before(x, y) ==
        \E k \in 1..4 : x[k] < y[k] /\ \A j \in 1..(k - 1) : x[j] = y[j]
  IN  IF cands = {} THEN NoMatch
      ELSE LET g   == CHOOSE x \in cands : \A y \in cands : y = x \/ Before(y, x)
               num == g[1] + g[2] + g[3]
               beg == num + g[4] + 1
           IN  [matched  |-> TRUE,
                duration |-> SubSeq(t, 1, num),
                scale    |-> SubSeq(t, beg, beg + RunFrom(words, beg, n) - 1)]

\* a changed split_code_word: the loop stops at two characters
RECURSIVE split_code_word_short(_)
split_code_word_short(code) ==
  IF Len(code) > 1
    THEN <<code>> \o split_code_word_short(SubSeq(code, 1, Len(code) - 1))
    ELSE <<>>

\* Duration.split_code_word: the word, then the word without its last
\* character, and so on down to one character
RECURSIVE split_code_word(_)
split_code_word(code) ==
  IF Len(code) > 0
    THEN <<code>> \o split_code_word(SubSeq(code, 1, Len(code) - 1))
    ELSE <<>>

\* Python's "x in list"
In(x, list) == \E i \in 1..Len(list) : list[i] = x

W_seconds    == <<"s", "e", "c", "o", "n", "d", "s">>
W_minutes    == <<"m", "i", "n", "u", "t", "e", "s">>
W_hours      == <<"h", "o", "u", "r", "s">>
W_days       == <<"d", "a", "y", "s">>
W_years      == <<"y", "e", "a", "r", "s">>
W_decades    == <<"d", "e", "c", "a", "d", "e", "s">>
W_centuries  == <<"c", "e", "n", "t", "u", "r", "i", "e", "s">>
W_millennium == <<"m", "i", "l", "l", "e", "n", "n", "i", "u", "m">>

\* a changed literal: 365 for 365.25
F365 == IntFloat(365)

\* the float literal 365.25
F365_25 == ParseFloat(<<"3", "6", "5", ".", "2", "5">>)

\* Duration.scale_code: the seconds in one unit of the first unit, in the
\* order of the code, whose prefixes hold the code word; raising a str
\* (line 64) is a TypeError in Python 3
scale_code(code) ==
  LET seconds    == IntFloat(1)
      minutes    == FMul(seconds, IntFloat(60))
      hours      == FMul(minutes, IntFloat(60))
      days       == FMul(hours, IntFloat(24))
      years      == FMul(days, F365_25)
      decades    == FMul(years, IntFloat(10))
      centuries  == FMul(decades, IntFloat(10))
      millennium == FMul(centuries, IntFloat(10))
  IN  IF In(code, split_code_word(W_seconds)) THEN seconds
      ELSE IF In(code, split_code_word(W_minutes)) THEN minutes
      ELSE IF In(code, split_code_word(W_hours)) THEN hours
      ELSE IF In(code, split_code_word(W_days)) THEN days
      ELSE IF In(code, split_code_word(W_years)) THEN years
      ELSE IF In(code, split_code_word(W_decades)) THEN decades
      ELSE IF In(code, split_code_word(W_centuries)) THEN centuries
      ELSE IF In(code, split_code_word(W_millennium)) THEN millennium
      ELSE Raise("TypeError")

\* Duration.__init__: the value of _seconds, or the exception raised.
\* None.groups() is an AttributeError; float() is evaluated before
\* scale_code()
Duration(str) ==
  LET mt == re_match(strip(str))
  IN  IF ~mt.matched THEN Raise("AttributeError")
      ELSE LET number == ParseFloat(mt.duration)
           IN  IF IsErr(number) THEN number
               ELSE LET scale == scale_code(mt.scale)
                    IN  IF IsErr(scale) THEN scale ELSE FMul(number, scale)

\* the properties of a Duration whose _seconds is sec
seconds(sec) == sec
minutes(sec) == FDiv(seconds(sec), IntFloat(60))
\* a changed hours: taken from the seconds, not from the minutes
hoursOfSeconds(sec) == FDiv(seconds(sec), IntFloat(60))
hours(sec)   == FDiv(minutes(sec), IntFloat(60))
days(sec)    == FDiv(hours(sec), IntFloat(24))
years(sec)   == FDiv(days(sec), F365_25)

----------------------------------------------------------------------------
(* src/log_level.py *)

Error == [name |-> "Error", value |-> 2]
Warn  == [name |-> "Warn", value |-> 1]
Info  == [name |-> "Info", value |-> 0]
Debug == [name |-> "Debug", value |-> -1]
Trace == [name |-> "Trace", value |-> -2]

\* the members of the enumeration, in the order of the class body, which is
\* the order "for member in cls" visits them in
LogLevel == <<Error, Warn, Info, Debug, Trace>>

Levels == {LogLevel[i] : i \in 1..Len(LogLevel)}

Min2(a, b) == IF a <= b THEN a ELSE b
Max2(a, b) == IF a >= b THEN a ELSE b

\* the first member, in the order of the class, of the given value
MemberOf(value) ==
  LET hits == {i \in 1..Len(LogLevel) : LogLevel[i].value = value}
  IN  IF hits = {} THEN Raise("ValueError")
      ELSE LogLevel[CHOOSE i \in hits : \A j \in hits : i <= j]

\* a changed from_value: the upper clamp is missing
from_value_unclamped(value) == MemberOf(Max2(value, Trace.value))

\* LogLevel.from_value
from_value(value) ==
  LET lower == Trace
      upper == Error
  IN  MemberOf(Min2(upper.value, Max2(value, lower.value)))

\* LogLevel.color; raising a str is a TypeError
color(level) ==
  IF level = Error THEN "red"
  ELSE IF level = Warn THEN "yellow"
  ELSE IF level = Info THEN "white"
  ELSE IF level = Debug THEN "magenta"
  ELSE IF level = Trace THEN "cyan"
  ELSE "TypeError"

\* termcolor.colored(text, color), a library outside the repository: the
\* text tagged with the colour it will be shown in
colored(text, c) == [text |-> text, color |-> c]

\* LogLevel.colorer(level): the closure color_text, applied to a message
colorer(level, message) == colored(message, color(level))

\* a message argument is a str, [str |-> characters], or an int, [int |-> n]
RECURSIVE NatStr(_)
NatStr(n) ==
  IF n < 10 THEN <<Digits[n + 1]>>
  ELSE NatStr(n \div 10) \o <<Digits[(n % 10) + 1]>>

\* str(x)
str(x) ==
  IF DOMAIN x = {"str"} THEN x.str
  ELSE IF x.int < 0 THEN <<"-">> \o NatStr(-x.int)
  ELSE NatStr(x.int)

\* a changed join: the parts run together
RECURSIVE join_unseparated(_, _)
join_unseparated(sep, parts) ==
  IF parts = <<>> THEN <<>>
  ELSE parts[1] \o join_unseparated(sep, Tail(parts))

\* sep.join(parts)
RECURSIVE join(_, _)
join(sep, parts) ==
  IF parts = <<>> THEN <<>>
  ELSE IF Len(parts) = 1 THEN parts[1]
  ELSE parts[1] \o sep \o join(sep, Tail(parts))

\* a changed log: a level equal to the cutoff is dropped too
log_above(cutoff, level, messages, out) ==
  IF level.value <= cutoff.value THEN out
  ELSE Append(out, colorer(level,
                           join(<<" ">>, [i \in 1..Len(messages) |-> str(messages[i])])))

\* a changed log: a message equal to the last one written is not repeated
log_once(cutoff, level, messages, out) ==
  LET message == colorer(level,
                         join(<<" ">>, [i \in 1..Len(messages) |-> str(messages[i])]))
  IN  IF level.value < cutoff.value THEN out
      ELSE IF out # <<>> /\ out[Len(out)] = message THEN out
      ELSE Append(out, message)

\* the closure log of LogLevel.logger(cutoff, wrap): what wrap has been
\* called with, in order, after log(level, *messages), given what it had
\* been called with before
log(cutoff, level, messages, out) ==
  IF level.value < cutoff.value THEN out
  ELSE LET message == colorer(level,
                              join(<<" ">>, [i \in 1..Len(messages) |-> str(messages[i])]))
       IN  Append(out, message)

----------------------------------------------------------------------------
(* The state *)

VARIABLES
  coded,     \* the string given to Duration(...)
  pc,        \* "new": not constructed yet, "built", or "failed": __init__ raised
  _seconds,  \* the attribute self._seconds of the built object
  raised,    \* the exception __init__ raised
  view,      \* the property being read from the object, and its value
  raw,       \* the int last given to LogLevel.from_value
  member,    \* what from_value returned for it
  loggers,   \* the cutoffs of the loggers built so far, all on one sink
  sink,      \* what the sink (wrap) has been called with, in order
  calls      \* the number of calls of log so far

durVars == <<coded, pc, _seconds, raised, view>>

levelVars == <<raw, member>>

logVars == <<loggers, sink, calls>>

vars == <<durVars, levelVars, logVars>>

None == [none |-> TRUE]

----------------------------------------------------------------------------
(* The strings Duration(...) is given *)

MaxGap == 1

Spaces(k) == [i \in 1..k |-> " "]

\* magnitudes float() accepts
Magnitudes ==
  { <<"0">>, <<"1">>, <<"5">>, <<"1", "2", "0">>,
    <<"3", "6", "5", ".", "2", "5">>, <<"0", ".", "0", "3">>,
    <<"2", ".", "5">>, <<".", "5">>, <<"5", ".">> }

UnitNames ==
  << W_seconds, W_minutes, W_hours, W_days, W_years, W_decades,
     W_centuries, W_millennium >>

Prefixes(word) == {SubSeq(word, 1, k) : k \in 1..Len(word)}

\* every non-empty prefix of every unit name
UnitPrefixes == UNION {Prefixes(UnitNames[u]) : u \in 1..Len(UnitNames)}

\* words that are the prefix of no unit name
OtherWords ==
  { <<"z", "o", "r", "p">>, <<"a", "b", "c">>, <<"m", "s">>, <<"e">>,
    <<"D", "a", "y", "s">>, <<"d", "a", "y", "s", "s">>, <<"S">> }

\* what may follow the unit word
Tails ==
  { <<>>, <<" ">>, <<" ", "e", "x">>, <<"!">>, <<"2">>, <<"_">> }

\* <magnitude><blanks><unit name>; a few of them followed by every tail;
\* "1" and every other word; broken magnitudes and units; padded strings
Inputs ==
  {m \o Spaces(g) \o UnitNames[u] :
     m \in Magnitudes, g \in 0..MaxGap, u \in 1..Len(UnitNames)}
  \cup {m \o <<" ">> \o w \o t :
          m \in {<<"5">>, <<"0", ".", "0", "3">>},
          w \in {W_days, W_millennium, <<"d">>, <<"m", "i">>, <<"z", "o", "r", "p">>},
          t \in Tails}
  \cup {<<"1">> \o w : w \in UnitPrefixes \cup OtherWords}
  \cup {m \o Spaces(g) \o w :
          m \in {<<>>, <<".">>, <<"-", "5">>, <<"5">>, <<"1", "2">>,
                 <<"5", ".", "5", ".", "5">>},
          g \in 0..MaxGap,
          w \in {<<>>, <<"5">>, <<"_">>, <<"d", "a", "y", "s">>,
                 <<"z", "o", "r", "p">>, <<"a", "b", "c">>}}
  \cup { <<" ", " ", "5", " ", "d", "a", "y", "s", " ", " ">>,
         <<"\t", "5", "\t", "d", "a", "y", "s", "\n">>,
         <<"5", " ", ".", " ", "d">>, <<" ", " ">>, <<"!">> }

----------------------------------------------------------------------------
(* The operations of a Duration *)

DurStart ==
  /\ pc = "new"
  /\ _seconds = None
  /\ raised = None
  /\ view = None

LevelStart == raw = None /\ member = None

LogStart == loggers = {} /\ sink = <<>> /\ calls = 0

DurInit ==
  /\ coded \in Inputs
  /\ DurStart
  /\ LevelStart
  /\ LogStart

\* d = Duration(coded): _seconds is set, or the exception leaves no object
Construct ==
  /\ pc = "new"
  /\ LET r == Duration(coded)
     IN  IF IsErr(r)
           THEN pc' = "failed" /\ raised' = r /\ _seconds' = None
           ELSE pc' = "built" /\ raised' = None /\ _seconds' = r
  /\ UNCHANGED <<coded, view, levelVars, logVars>>

ReadSeconds ==
  /\ pc = "built"
  /\ view = None
  /\ view' = [name |-> "seconds", value |-> seconds(_seconds)]
  /\ UNCHANGED <<coded, pc, _seconds, raised, levelVars, logVars>>

ReadMinutes ==
  /\ pc = "built"
  /\ view = None
  /\ view' = [name |-> "minutes", value |-> minutes(_seconds)]
  /\ UNCHANGED <<coded, pc, _seconds, raised, levelVars, logVars>>

ReadHours ==
  /\ pc = "built"
  /\ view = None
  /\ view' = [name |-> "hours", value |-> hours(_seconds)]
  /\ UNCHANGED <<coded, pc, _seconds, raised, levelVars, logVars>>

ReadDays ==
  /\ pc = "built"
  /\ view = None
  /\ view' = [name |-> "days", value |-> days(_seconds)]
  /\ UNCHANGED <<coded, pc, _seconds, raised, levelVars, logVars>>

ReadYears ==
  /\ pc = "built"
  /\ view = None
  /\ view' = [name |-> "years", value |-> years(_seconds)]
  /\ UNCHANGED <<coded, pc, _seconds, raised, levelVars, logVars>>

\* the caller is done with the value it read
Forget ==
  /\ view # None
  /\ view' = None
  /\ UNCHANGED <<coded, pc, _seconds, raised, levelVars, logVars>>

DurNext ==
  \/ Construct
  \/ Forget
  \/ ReadSeconds
  \/ ReadMinutes
  \/ ReadHours
  \/ ReadDays
  \/ ReadYears

SpecDuration == DurInit /\ [][DurNext]_vars

----------------------------------------------------------------------------
(* The operations of LogLevel *)

MaxRaw == 100

LevelInit ==
  /\ coded = <<>>
  /\ DurStart
  /\ LevelStart
  /\ LogStart

\* LogLevel.from_value(v)
FromValue ==
  \E v \in (-MaxRaw)..MaxRaw :
    /\ raw' = v
    /\ member' = from_value(v)
    /\ UNCHANGED <<durVars, logVars>>

LevelNext == FromValue

SpecLevel == LevelInit /\ [][LevelNext]_vars

MaxLoggers == 2
MaxCalls == 2
MaxMsgs == 3

\* the arguments a call of log is given: none, one, or the first MaxMsgs of
\* these
Pool ==
  << [str |-> <<"a">>], [str |-> <<"b">>], [int |-> 3], [int |-> -12],
     [str |-> <<>>] >>

Messages == {SubSeq(Pool, 1, n) : n \in {0, 1, MaxMsgs}}

LogInit ==
  /\ coded = <<>>
  /\ DurStart
  /\ LevelStart
  /\ LogStart

\* LogLevel.logger(cutoff, wrap): builds the closure and calls nothing
MakeLogger(cutoff) ==
  /\ Cardinality(loggers \cup {cutoff}) <= MaxLoggers
  /\ loggers' = loggers \cup {cutoff}
  /\ UNCHANGED <<durVars, levelVars, sink, calls>>

\* one call log(level, *messages) of the logger built with cutoff
Log(cutoff, level, messages) ==
  /\ cutoff \in loggers
  /\ calls < MaxCalls
  /\ calls' = calls + 1
  /\ sink' = log(cutoff, level, messages, sink)
  /\ UNCHANGED <<durVars, levelVars, loggers>>

LogNext ==
  \/ \E cutoff \in Levels : MakeLogger(cutoff)
  \/ \E cutoff \in Levels, level \in Levels, messages \in Messages :
       Log(cutoff, level, messages)

SpecLogger == LogInit /\ [][LogNext]_vars

----------------------------------------------------------------------------
(* What the specification says of Duration, stated on its own terms *)

\* the seconds in one unit, unit by unit, as the specification lists them
RatioDigits ==
  << <<"1">>, <<"6", "0">>, <<"3", "6", "0", "0">>,
     <<"8", "6", "4", "0", "0">>,
     <<"3", "1", "5", "5", "7", "6", "0", "0">>,
     <<"3", "1", "5", "5", "7", "6", "0", "0", "0">>,
     <<"3", "1", "5", "5", "7", "6", "0", "0", "0", "0">>,
     <<"3", "1", "5", "5", "7", "6", "0", "0", "0", "0", "0">> >>

ratioToSeconds(u) == FloatOfDecimal(RatioDigits[u])

IsPrefixOf(p, word) == Len(p) <= Len(word) /\ SubSeq(word, 1, Len(p)) = p

\* the first unit, in the order of UnitNames, that p is a prefix of (0: none)
FirstUnit(p) ==
  LET us == {u \in 1..Len(UnitNames) : p # <<>> /\ IsPrefixOf(p, UnitNames[u])}
  IN  IF us = {} THEN 0 ELSE CHOOSE u \in us : \A v \in us : u <= v

IsLetter(c) == c \in Letters

IsBlank(c) == c \in {" ", "\t", "\n"}

\* s without the blanks around it
Trimmed(s) ==
  LET first == CHOOSE i \in 1..(Len(s) + 1) :
                 /\ \A j \in 1..(i - 1) : IsBlank(s[j])
                 /\ (i = Len(s) + 1 \/ ~IsBlank(s[i]))
      last  == CHOOSE i \in 0..Len(s) :
                 /\ \A j \in (i + 1)..Len(s) : IsBlank(s[j])
                 /\ (i = 0 \/ ~IsBlank(s[i]))
  IN  SubSeq(s, first, last)

\* the shape of section 4.1: the leading numeric run (digits with at most
\* one point), blanks, then the leading run of letters
Shape(s) ==
  LET t        == Trimmed(s)
      n        == Len(t)
      Numeric(k) == /\ \A i \in 1..k : IsDigit(t[i]) \/ t[i] = "."
                    /\ Cardinality({i \in 1..k : t[i] = "."}) <= 1
      num      == CHOOSE k \in 0..n : Numeric(k) /\ (k = n \/ ~Numeric(k + 1))
      gap      == CHOOSE k \in 0..(n - num) :
                    /\ \A i \in (num + 1)..(num + k) : IsBlank(t[i])
                    /\ (num + k = n \/ ~IsBlank(t[num + k + 1]))
      word     == CHOOSE k \in 0..(n - num - gap) :
                    /\ \A i \in (num + gap + 1)..(num + gap + k) : IsLetter(t[i])
                    /\ (num + gap + k = n \/ ~IsLetter(t[num + gap + k + 1]))
  IN  [magnitude |-> SubSeq(t, 1, num),
       unit      |-> SubSeq(t, num + gap + 1, num + gap + word)]

\* a magnitude with a digit in it
ValidMagnitude(m) == \E i \in 1..Len(m) : IsDigit(m[i])

\* C1: for every valid magnitude m and every full unit name U, constructing
\* Duration from "m U" yields _seconds = float(m) * ratioToSeconds(U), with
\* the ratios 1, 60, 3600, 86400, 31557600 and its tenfolds
C1_SecondsIsMagnitudeTimesRatio ==
  \A m \in Magnitudes, g \in 1..MaxGap, u \in 1..Len(UnitNames) :
    (coded = m \o Spaces(g) \o UnitNames[u] /\ pc # "new")
      => /\ pc = "built"
         /\ _seconds = FMul(FloatOfDecimal(m), ratioToSeconds(u))

C1_Witness ==
  /\ coded = <<"2", ".", "5", " ">> \o W_centuries
  /\ pc = "built"
  /\ _seconds = FloatOfDecimal(<<"7", "8", "8", "9", "4", "0", "0", "0", "0", "0">>)

\* C2: "1p" for a non-empty prefix p of a unit name resolves to the first
\* unit, in the order seconds, minutes, hours, days, years, decades,
\* centuries, millennium, that p is a prefix of: to U itself when p is a
\* prefix of no earlier unit, to the earliest otherwise, never to an error
C2_FirstMatchingUnit ==
  \A p \in UnitPrefixes :
    (coded = <<"1">> \o p /\ pc # "new")
      => /\ pc = "built"
         /\ FirstUnit(p) # 0
         /\ _seconds = ratioToSeconds(FirstUnit(p))

C2_Witness ==
  /\ coded = <<"1", "m">>
  /\ pc = "built"
  /\ _seconds = IntFloat(60)

\* C3: when the magnitude parses and the unit word is the prefix of no unit
\* name, the construction fails with the error of the unrecognised unit, the
\* one line 64 names ('Invalid duration code!'), and no Duration exists
C3_UnknownUnitRaisesItsError ==
  LET sh == Shape(coded)
  IN  (/\ pc # "new"
       /\ ValidMagnitude(sh.magnitude)
       /\ sh.unit # <<>>
       /\ FirstUnit(sh.unit) = 0)
        => /\ pc = "failed"
           /\ raised = Raise("Invalid duration code!")
           /\ _seconds = None

\* what the construction of "5 zorp" ends in: the TypeError of a raise that
\* is given a str
C3_Witness ==
  /\ coded = <<"5", " ", "z", "o", "r", "p">>
  /\ pc = "failed"
  /\ raised = Raise("TypeError")

\* C4: every string that does not start, once trimmed, with a numeric
\* magnitude followed by a unit word of letters fails to construct: an
\* exception is raised and no Duration exists
C4_MalformedFails ==
  LET sh == Shape(coded)
  IN  (pc # "new" /\ ~(ValidMagnitude(sh.magnitude) /\ sh.unit # <<>>))
        => /\ pc = "failed"
           /\ _seconds = None
           /\ raised \in {Raise("AttributeError"), Raise("ValueError"),
                          Raise("TypeError")}

C4_Witness ==
  /\ coded = <<".", " ", "d", "a", "y", "s">>
  /\ pc = "failed"
  /\ raised = Raise("ValueError")

ViewNames == <<"seconds", "minutes", "hours", "days", "years">>

\* the digits after the point of a magnitude
Fraction(m) ==
  LET dots == {i \in 1..Len(m) : m[i] = "."}
  IN  IF dots = {} THEN <<>>
      ELSE SubSeq(m, (CHOOSE i \in dots : TRUE) + 1, Len(m))

\* a whole number of quarters: such a magnitude, its seconds and every
\* quotient of the chain are exact in binary
QuarterMultiple(m) ==
  Fraction(m) \in {<<>>, <<"0">>, <<"5">>, <<"2", "5">>, <<"5", "0">>, <<"7", "5">>}

\* the value the U-view of "m U" has: the view that was read is the one of
\* the unit the string names
ReadBackOf(m) ==
  \E g \in 0..MaxGap, u \in 1..Len(ViewNames) :
    /\ coded = m \o Spaces(g) \o UnitNames[u]
    /\ view # None
    /\ view.name = ViewNames[u]

\* each view is the one before it divided by 60, 60, 24 and 365.25
ViewsAreChained ==
  LET f60  == IntFloat(60)
      f24  == IntFloat(24)
      f365 == FloatOfDecimal(<<"3", "6", "5", ".", "2", "5">>)
      min  == FDiv(_seconds, f60)
      hrs  == FDiv(min, f60)
      dys  == FDiv(hrs, f24)
  IN  view # None =>
        /\ pc = "built"
        /\ view.name \in {ViewNames[i] : i \in 1..Len(ViewNames)}
        /\ view.name = "seconds" => view.value = _seconds
        /\ view.name = "minutes" => view.value = min
        /\ view.name = "hours" => view.value = hrs
        /\ view.name = "days" => view.value = dys
        /\ view.name = "years" => view.value = FDiv(dys, f365)

\* C8 as the specification states it: the U-view of "n U" equals n for
\* every magnitude n
C8_EveryMagnitudeReadsBack ==
  \A m \in Magnitudes : ReadBackOf(m) => view.value = FloatOfDecimal(m)

\* C8, amended: the views are chained quotients of the stored seconds
\* (minutes = seconds/60, hours = minutes/60, days = hours/24, years =
\* days/365.25); the U-view of "n U" equals n for every magnitude n that is
\* a whole number of quarters (integers, 2.5, 365.25); and reading a view
\* leaves _seconds as it was
C8_ChainedViews ==
  /\ [](ViewsAreChained
        /\ \A m \in Magnitudes :
             (QuarterMultiple(m) /\ ReadBackOf(m)) => view.value = FloatOfDecimal(m))
  /\ [][view' # view => (_seconds' = _seconds /\ pc' = pc)]_vars

C8_Witness ==
  /\ coded = <<"3", "6", "5", ".", "2", "5", " ", "d", "a", "y", "s">>
  /\ view = [name |-> "years", value |-> IntFloat(1)]

NotWordChar(c) == ~(IsLetter(c) \/ IsDigit(c) \/ c = "_")

\* the string before position k + 1 constructs, and what follows is ignored:
\* the whole string constructs to the same seconds
SameAsPrefix(k) ==
  ~IsErr(Duration(SubSeq(coded, 1, k)))
    => pc = "built" /\ _seconds = Duration(SubSeq(coded, 1, k))

\* C9 as the specification states it: whatever follows a string that
\* parses, if it does not begin with a letter, is ignored
C9_NonLetterTailIgnored ==
  pc # "new" =>
    \A k \in 1..(Len(coded) - 1) : ~IsLetter(coded[k + 1]) => SameAsPrefix(k)

\* C9, amended: whatever follows a string that parses is ignored when it
\* begins with a character that is not a word character of the pattern (not
\* a letter, a digit or an underscore): a blank, punctuation
C9_NonWordTailIgnored ==
  pc # "new" =>
    \A k \in 1..(Len(coded) - 1) : NotWordChar(coded[k + 1]) => SameAsPrefix(k)

C9_Witness ==
  /\ coded = <<"5", " ", "d", "a", "y", "s", "!">>
  /\ pc = "built"
  /\ _seconds = IntFloat(432000)

----------------------------------------------------------------------------
(* What the specification says of LogLevel, stated on its own terms *)

\* C5: for every integer v, from_value(v) returns, without an error, the
\* member whose rank is min(2, max(-2, v)): Error for every v >= 2, Trace
\* for every v <= -2; clamping what it returned gives it again
C5_ClampedMember ==
  member # None =>
    /\ member \in Levels
    /\ member.value = (IF raw > 2 THEN 2 ELSE IF raw < -2 THEN -2 ELSE raw)
    /\ raw >= 2 => member.name = "Error"
    /\ raw <= -2 => member.name = "Trace"
    /\ from_value(member.value) = member

C5_Witness == member = Error /\ raw = MaxRaw

\* the colour of each level, as section 4.2 lists them
ColorTable ==
  [n \in {"Error", "Warn", "Info", "Debug", "Trace"} |->
     CASE n = "Error" -> "red"
       [] n = "Warn" -> "yellow"
       [] n = "Info" -> "white"
       [] n = "Debug" -> "magenta"
       [] n = "Trace" -> "cyan"]

\* how each argument of Pool reads once stringified
PoolShown == << <<"a">>, <<"b">>, <<"3">>, <<"-", "1", "2">>, <<>> >>

\* the first n arguments of Pool, stringified, one space between neighbours
RECURSIVE SpacedText(_)
SpacedText(n) ==
  IF n = 0 THEN <<>>
  ELSE IF n = 1 THEN PoolShown[1]
  ELSE SpacedText(n - 1) \o <<" ">> \o PoolShown[n]

\* what the sink is to receive for a call that passes the cutoff
ExpectedPayload(level, messages) ==
  [text |-> SpacedText(Len(messages)), color |-> ColorTable[level.name]]

\* C6: one call of the function logger(cutoff, sink) returned calls the sink
\* never when level.rank < cutoff.rank and exactly once otherwise, whatever
\* the messages (none included)
C6_SinkCalledOnceOrNever ==
  [][\A cutoff \in Levels, level \in Levels, messages \in Messages :
       Log(cutoff, level, messages)
         => Len(sink') = Len(sink) + (IF level.value >= cutoff.value THEN 1 ELSE 0)]_vars

C6_Witness ==
  /\ loggers = {Warn}
  /\ calls = MaxCalls
  /\ sink = <<colored(<<>>, "yellow")>>

\* C7: for a call that passes the cutoff the sink receives the messages,
\* stringified and joined by exactly one space in argument order, in the
\* colour of the level: Error red, Warn yellow, Info white, Debug magenta,
\* Trace cyan
C7_PayloadJoinedAndColoured ==
  [][\A cutoff \in Levels, level \in Levels, messages \in Messages :
       (Log(cutoff, level, messages) /\ level.value >= cutoff.value)
         => /\ sink' # <<>>
            /\ sink'[Len(sink')] = ExpectedPayload(level, messages)]_vars

C7_Witness ==
  /\ calls = 1
  /\ sink = <<[text |-> <<"a", " ", "b", " ", "3">>, color |-> "white"]>>

\* C10: over any run of logger constructions and log calls on one sink, the
\* sink's history grows by exactly the payload of each call whose level is
\* not below the cutoff of its own logger, at the end, and by nothing else:
\* a construction and a filtered call leave it as it was, whatever was
\* logged before and whatever other loggers exist
C10_HistoryIsPassingCallsInOrder ==
  [][/\ \A cutoff \in Levels : MakeLogger(cutoff) => sink' = sink
     /\ \A cutoff \in Levels, level \in Levels, messages \in Messages :
          Log(cutoff, level, messages)
            => sink' = IF level.value >= cutoff.value
                         THEN Append(sink, ExpectedPayload(level, messages))
                         ELSE sink]_vars

C10_Witness ==
  /\ loggers = {Error, Trace}
  /\ calls = MaxCalls
  /\ sink = <<colored(<<"a">>, "red"), colored(<<"a">>, "cyan")>>

====
